---- MODULE Spec2Model ----
(***************************************************************************)
(* A model of pyfuzzer's command line driver (src/pyfuzzer/__init__.py).   *)
(*                                                                         *)
(* A Python str is modelled as a sequence of atoms: every literal of the   *)
(* source is one atom (<<"-o">>), every character of an input on which the *)
(* code does character-level work (a source path, CFLAGS, the output       *)
(* option) is one atom, and + / f-strings are \o.  None is the empty set   *)
(* and a present optional value v is {v}.                                  *)
(***************************************************************************)
EXTENDS Integers, Sequences, FiniteSets, TLC

VARIABLES
    args,         \* the argparse namespace of the running invocation
    CFLAGS,       \* os.getenv('CFLAGS', None), read at import
    fs,           \* the working directory
    pc,           \* position of the invocation in the code
    calls,        \* external effects of this invocation, in order
    stdout,       \* the lines this invocation printed
    todo,         \* the rest of the list a for loop iterates over
    modinit,      \* do_build's local modinit_func
    exit_status,  \* the process's exit status, once pc = "exit"
    stderr,       \* what the process wrote on the diagnostic stream
    uncaught,     \* the exception that left main(), if any
    invocations   \* how many times the tool was started in this directory

vars == <<args, CFLAGS, fs, pc, calls, stdout, todo, modinit, exit_status, stderr,
          uncaught, invocations>>

----------------------------------------------------------------------------
(* Bounds of the model. *)

MaxLen == 3            \* characters in a source path
MaxFlagLen == 3        \* characters in CFLAGS
MaxUnits == 3          \* units given on the command line
MaxInvocations == 2    \* invocations of the tool, one after the other

----------------------------------------------------------------------------
(* Strings. *)

RECURSIVE SeqsUpTo(_, _)
SeqsUpTo(S, n) ==
    IF n = 0 THEN {<<>>}
    ELSE LET shorter == SeqsUpTo(S, n - 1)
         IN  shorter \cup {Append(s, c) : s \in shorter, c \in S}

Last(s) == s[Len(s)]

\* str.rfind(c), 1-based, 0 when c does not occur.
RECURSIVE RFind(_, _)
RFind(s, c) ==
    IF s = <<>> THEN 0
    ELSE IF Last(s) = c THEN Len(s)
    ELSE RFind(SubSeq(s, 1, Len(s) - 1), c)

\* posixpath.basename(p): p[p.rfind('/') + 1:]
Basename(p) == SubSeq(p, RFind(p, "/") + 1, Len(p))

\* genericpath._splitext(p, '/', None, '.')[0]: the last dot splits, unless
\* only dots lie between the last separator and it.
SplitextRoot(p) ==
    LET sepIndex == RFind(p, "/")
        dotIndex == RFind(p, ".")
    IN  IF /\ dotIndex > sepIndex
           /\ \E k \in (sepIndex + 1) .. (dotIndex - 1) : p[k] # "."
        THEN SubSeq(p, 1, dotIndex - 1)
        ELSE p

\* str.split(): the maximal runs of non-whitespace characters.
RECURSIVE SplitFrom(_, _)
SplitFrom(s, word) ==
    IF s = <<>> THEN (IF word = <<>> THEN <<>> ELSE <<word>>)
    ELSE IF Head(s) = " "
         THEN (IF word = <<>> THEN <<>> ELSE <<word>>) \o SplitFrom(Tail(s), <<>>)
         ELSE SplitFrom(Tail(s), Append(word, Head(s)))

Split(s) == SplitFrom(s, <<>>)

\* ' '.join(command)
RECURSIVE Join(_)
Join(command) ==
    IF command = <<>> THEN <<>>
    ELSE IF Len(command) = 1 THEN Head(command)
    ELSE Head(command) \o <<" ">> \o Join(Tail(command))

----------------------------------------------------------------------------
(* Module level configuration. *)

SCRIPT_DIR == <<"SCRIPT_DIR">>
CC == <<"clang">>
LIB_FUZZING_ENGINE == <<"-fsanitize=fuzzer">>

includes == << <<"-I">> \o <<"include">> >>

\* sysconfig's LDFLAGS, -lpython{LDVERSION}, -L{LIBDIR}, LIBS; LDFLAGS unset.
ldflags == << <<"-lpython">> \o <<"LDVERSION">>, <<"-L">> \o <<"LIBDIR">>, <<"LIBS">> >>

----------------------------------------------------------------------------
(* The Command Synthesizer. *)

DefaultFlags ==
    << <<"-fprofile-instr-generate">>, <<"-fcoverage-mapping">>, <<"-g">>,
       <<"-fsanitize=undefined">>, <<"-fsanitize=signed-integer-overflow">>,
       <<"-fsanitize=alignment">>, <<"-fsanitize=bool">>,
       <<"-fsanitize=builtin">>, <<"-fsanitize=bounds">>,
       <<"-fsanitize=enum">>, <<"-fno-sanitize-recover=all">> >>

\* Python truth of the module constant CFLAGS: set and not the empty string.
Truthy(opt) == opt # {} /\ opt # {<<>>}

Value(opt) == CHOOSE v \in opt : TRUE

\* os.path.join(SCRIPT_DIR, name)
ScriptFile(name) == SCRIPT_DIR \o <<"/">> \o name

\* The override added to the defaults, not put in their place.
BuildFlagsMerged(cflags) ==
    DefaultFlags \o (IF Truthy(cflags) THEN Split(Value(cflags)) ELSE <<>>)

\* The flags build() puts between the macro definition and the include paths.
BuildFlags(cflags) == IF Truthy(cflags) THEN Split(Value(cflags)) ELSE DefaultFlags

\* The command of build(csources, modinit_func, output).
BuildCommand(csources, modinit_func, output, cflags) ==
    <<CC>>
    \o <<LIB_FUZZING_ENGINE, <<"-DMODINIT_FUNC=">> \o modinit_func>>
    \o BuildFlags(cflags)
    \o includes
    \o csources
    \o <<ScriptFile(<<"pyfuzzer_common.c">>), ScriptFile(<<"pyfuzzer.c">>)>>
    \o ldflags
    \o << <<"-o">>, output >>

\* build_print() with build()'s else branch.
PrintFlagsWithDefaults(cflags) ==
    IF Truthy(cflags) THEN Split(Value(cflags)) ELSE DefaultFlags

\* The flags build_print() puts between the macro definition and the include paths.
PrintFlags(cflags) == IF Truthy(cflags) THEN Split(Value(cflags)) ELSE <<>>

\* The parser's default for bin_print in the place of f'{output}_print'.
PrintOutputDefault(output) == <<"./pyfuzzer">> \o <<"_print">>

\* The output path of build_print(): f'{output}_print'.
PrintOutput(output) == output \o <<"_print">>

\* The command of build_print(csources, modinit_func, output).
BuildPrintCommand(csources, modinit_func, output, cflags) ==
    <<CC>>
    \o << <<"-DMODINIT_FUNC=">> \o modinit_func >>
    \o PrintFlags(cflags)
    \o includes
    \o csources
    \o <<ScriptFile(<<"pyfuzzer_common.c">>), ScriptFile(<<"pyfuzzer_print.c">>)>>
    \o ldflags
    \o << <<"-o">>, PrintOutput(output) >>

\* do_build without the basename: the directory part stays in the symbol.
ModinitFuncOfPath(a) ==
    IF a.modinit_func = {}
    THEN <<"PyInit_">> \o SplitextRoot(a.csources[1])
    ELSE Value(a.modinit_func)

\* do_build's choice of modinit_func.
ModinitFunc(a) ==
    IF a.modinit_func = {}
    THEN LET filename == Basename(a.csources[1])
             filename_base == SplitextRoot(filename)
         IN  <<"PyInit_">> \o filename_base
    ELSE Value(a.modinit_func)

\* The command of run(libfuzzer_arguments, bin) and the profile it names.
Profraw(bin) == bin \o <<".profraw">>

Profdata(bin) == bin \o <<".profdata">>

RmCommand(bin) == << <<"rm">>, <<"-f">>, Profraw(bin) >>

RunCommand(libfuzzer_arguments, bin) ==
    <<bin, <<"corpus">>, <<"-print_final_stats=1">>>> \o libfuzzer_arguments

RunEnv(bin) == {<<"LLVM_PROFILE_FILE", Profraw(bin)>>}

\* The two commands of print_coverage(bin).
MergeCommand(bin) ==
    << <<"llvm-profdata">>, <<"merge">>, <<"-sparse">>, Profraw(bin),
       <<"-o">>, Profdata(bin) >>

ShowCommand(bin) ==
    << <<"llvm-cov">>, <<"show">>, bin, <<"-instr-profile=">> \o Profdata(bin),
       <<"-ignore-filename-regex=/usr/|pyfuzzer.c">> >>

----------------------------------------------------------------------------
(* Exceptions and the top level of main(). *)

CalledProcessError(command, rc) ==
    [type |-> "CalledProcessError", cmd |-> command, returncode |-> rc,
     what |-> <<>>]

OSError(type, command, what) ==
    [type |-> type, cmd |-> command, returncode |-> 0, what |-> what]

\* str(e)
Str(e) ==
    IF e.type = "CalledProcessError"
    THEN IF e.returncode < 0
         THEN <<"Command '">> \o Join(e.cmd) \o <<"' died with signal ">>
              \o <<ToString(0 - e.returncode)>> \o <<".">>
         ELSE <<"Command '">> \o Join(e.cmd)
              \o <<"' returned non-zero exit status ">>
              \o <<ToString(e.returncode)>> \o <<".">>
    ELSE e.what

\* print in the place of sys.exit: the failure is reported and the status lost.
MainRaisePrinted(debug, e) ==
    IF debug
    THEN [status |-> 1, err |-> <<"Traceback">> \o <<e.type>> \o Str(e),
          uncaught |-> {e}]
    ELSE [status |-> 0, err |-> <<"error: ">> \o Str(e), uncaught |-> {}]

\* The try without the test of args.debug.
MainRaiseAlwaysCaught(debug, e) ==
    [status |-> 1, err |-> <<"error: ">> \o Str(e), uncaught |-> {}]

\* How main() ends when args.func(args) raises e: sys.exit('error: ' + str(e))
\* inside the try, the interpreter's traceback and status 1 under --debug.
MainRaise(debug, e) ==
    IF debug
    THEN [status |-> 1, err |-> <<"Traceback">> \o <<e.type>> \o Str(e),
          uncaught |-> {e}]
    ELSE [status |-> 1, err |-> <<"error: ">> \o Str(e), uncaught |-> {}]

\* How main() ends when args.func(args) returns.
MainReturn == [status |-> 0, err |-> <<>>, uncaught |-> {}]

----------------------------------------------------------------------------
(* The working directory and the child processes. *)

Kinds == {"absent", "file", "dir"}

Bins == {<<"./pyfuzzer">>, <<"fuzz">>}

\* Directory entries the glob patterns crash-*, oom-* and slow-unit-* can
\* match.  "U+DCFF" stands for a byte of a file name that is not UTF-8, which
\* glob returns as a lone surrogate.
Names == {<<"crash-", "a">>, <<"crash-", "U+DCFF">>, <<"oom-", "a">>,
          <<"slow-unit-", "a">>}

Patterns == <<"crash-", "oom-", "slow-unit-">>

\* The lists glob.glob(prefix + '*') can return: the matching entries, of
\* any kind, in the directory's order.
Glob(dir, prefix) ==
    LET found == {n \in Names : n[1] = prefix /\ dir.entries[n] # "absent"}
    IN  {l \in [1 .. Cardinality(found) -> found] :
            \A i, j \in DOMAIN l : l[i] = l[j] => i = j}

\* Whether filename.encode('utf-8') succeeds.
Encodable(filename) == \A i \in DOMAIN filename : filename[i] # "U+DCFF"

\* Exit statuses of a child: success, failure, libFuzzer's -error_exitcode
\* default, death by SIGABRT.
ExitCodes == {0, 1, 77, -6}

Ran(rc) == [spawned |-> TRUE, rc |-> rc]

NotFound == [spawned |-> FALSE, rc |-> 0]

Event(kind, argv, env, o) ==
    [kind |-> kind, argv |-> argv, env |-> env, input |-> <<>>,
     spawned |-> o.spawned, rc |-> o.rc]

\* subprocess.run(command, input=data)
RunEvent(command, data, o) ==
    [Event("exec", command, {}, o) EXCEPT !.input = data]

\* subprocess.call in the place of check_call: the exit status is dropped.
CheckCallUnchecked(command, o) ==
    IF ~o.spawned
    THEN {OSError("FileNotFoundError", command,
                  <<"[Errno 2] No such file or directory: ">> \o command[1])}
    ELSE {}

\* What subprocess.check_call(command) raises when the child ends as o.
CheckCall(command, o) ==
    IF ~o.spawned
    THEN {OSError("FileNotFoundError", command,
                  <<"[Errno 2] No such file or directory: ">> \o command[1])}
    ELSE IF o.rc # 0 THEN {CalledProcessError(command, o.rc)}
    ELSE {}

\* rm -f path: succeeds on a file and on nothing, fails on a directory.
RmOutcome(kind) == IF kind = "dir" THEN Ran(1) ELSE Ran(0)

\* The ways llvm-profdata merge can end: it needs the raw profile.
MergeOutcomes(kind) ==
    {NotFound} \cup (IF kind = "file" THEN {Ran(0), Ran(1)} ELSE {Ran(1)})

ToolOutcomes == {NotFound, Ran(0), Ran(1)}

BinaryOutcomes == {NotFound} \cup {Ran(rc) : rc \in ExitCodes}

----------------------------------------------------------------------------
(* Command lines. *)

DefaultArgs ==
    [subcommand |-> "", debug |-> FALSE, bin |-> <<"./pyfuzzer">>,
     mutator |-> {}, libfuzzer_argument |-> <<>>, csources |-> <<>>,
     modinit_func |-> {}, output |-> <<"./pyfuzzer">>, fuzzer_only |-> FALSE,
     bin_print |-> <<"./pyfuzzer_print">>, units |-> <<>>]

Mutators == {{}, {<<"mutator_src.py">>}, {<<"missing.py">>}}

\* Whether shutil.copyfile finds its source.
SourceExists(path) == path # <<"missing.py">>

\* run: the default binary with every mutator option, another binary with
\* and without an extra libFuzzer argument.
RunArgs ==
    {[DefaultArgs EXCEPT !.subcommand = "run", !.debug = d, !.mutator = m] :
        d \in BOOLEAN, m \in Mutators}
    \cup
    {[DefaultArgs EXCEPT !.subcommand = "run", !.debug = d, !.bin = <<"fuzz">>,
                         !.libfuzzer_argument = l] :
        d \in BOOLEAN, l \in {<<>>, << <<"-runs=1">> >>}}

CoverageArgs ==
    {[DefaultArgs EXCEPT !.subcommand = "print_coverage", !.debug = d,
                         !.bin = b] : d \in BOOLEAN, b \in Bins}

UnitLists == SeqsUpTo({n \in Names : n[1] = "crash-"}, MaxUnits)

PrintCorpusArgs ==
    {[DefaultArgs EXCEPT !.subcommand = "print_corpus", !.debug = d,
                         !.units = u] :
        d \in BOOLEAN, u \in {<<>>, << <<"corpus/u">> >>}}

PrintCrashesArgs ==
    {[DefaultArgs EXCEPT !.subcommand = "print_crashes", !.debug = d,
                         !.units = u] : d \in BOOLEAN, u \in UnitLists}

CleanArgs ==
    {[DefaultArgs EXCEPT !.subcommand = "clean", !.debug = d] : d \in BOOLEAN}

Chars == {"a", "/", "."}

Paths == SeqsUpTo(Chars, MaxLen)

FlagChars == {"g", " "}

\* build with every source path, flag override and option the bounds allow.
BuildArgs ==
    {[DefaultArgs EXCEPT !.subcommand = "build", !.debug = d,
                         !.csources = c, !.modinit_func = m, !.output = o,
                         !.fuzzer_only = f] :
        d \in {FALSE},
        c \in {<<p>> : p \in Paths} \cup {<<p, <<"b", ".", "c">>>> : p \in Paths},
        m \in {{}, {<<"init">>}},
        o \in {<<"./pyfuzzer">>, <<"o", "_print">>},
        f \in BOOLEAN}

\* build as the workflow specification starts it.
PlainBuildArgs ==
    {[DefaultArgs EXCEPT !.subcommand = "build", !.debug = d,
                         !.csources = << <<"a", ".", "c">> >>,
                         !.fuzzer_only = f] : d \in BOOLEAN, f \in BOOLEAN}

CflagsValues == {{}} \cup {{c} : c \in SeqsUpTo(FlagChars, MaxFlagLen)}

WorkflowArgs ==
    RunArgs \cup CoverageArgs \cup PrintCorpusArgs \cup PrintCrashesArgs
    \cup CleanArgs \cup PlainBuildArgs

\* The working directories an invocation can find: a raw profile per binary
\* that is missing, a file or (by accident) a directory, a corpus tree or
\* none, and any of the entries, of which crash-a may be a directory.
Directories ==
    {d \in [profraw : [Bins -> Kinds], profdata : {{}}, corpus : {"absent", "dir"},
            entries : [Names -> Kinds]] :
        \A n \in Names : d.entries[n] = "dir" => n = <<"crash-", "a">>}

\* The working directories clean can find: corpus missing, a tree or a plain
\* file, and every entry missing, a file or a directory.
CleanDirectories ==
    [profraw : {[b \in Bins |-> "absent"]}, profdata : {{}}, corpus : Kinds,
     entries : [Names -> Kinds]]

----------------------------------------------------------------------------
(* The program. *)

\* The state main() starts in once parse_args has returned a.
Started(a, cflags, dir) ==
    /\ args = a
    /\ CFLAGS = cflags
    /\ fs = dir
    /\ pc = "main"
    /\ calls = <<>>
    /\ stdout = <<>>
    /\ todo = <<>>
    /\ modinit = <<>>
    /\ exit_status = 0
    /\ stderr = <<>>
    /\ uncaught = {}

\* The process ends as r says.
End(r) ==
    /\ pc' = "exit"
    /\ exit_status' = r.status
    /\ stderr' = r.err
    /\ uncaught' = r.uncaught

\* args.func(args) goes on to the step at label next.
Goto(next) ==
    /\ pc' = next
    /\ UNCHANGED <<exit_status, stderr, uncaught>>

\* A step that raised the exceptions of `raised` (none or one) ends the
\* process through main(), and otherwise goes on to next.
RaiseOrGoto(raised, next) ==
    IF raised # {} THEN End(MainRaise(args.debug, Value(raised))) ELSE Goto(next)

RaiseOrReturn(raised) ==
    IF raised # {} THEN End(MainRaise(args.debug, Value(raised))) ELSE End(MainReturn)

\* run_command(command, env) with the child ending as o: the echo, the call.
RunCommandStep(command, env, o) ==
    /\ stdout' = Append(stdout, Join(command))
    /\ calls' = Append(calls, Event("exec", command, env, o))

\* main(): args.func(args).
Main ==
    /\ pc = "main"
    /\ Goto("do_" \o args.subcommand)
    /\ UNCHANGED <<args, CFLAGS, fs, calls, stdout, todo, modinit, invocations>>

\* do_run: generate(args.mutator).
Generate ==
    /\ pc = "do_run"
    /\ IF args.mutator = {}
       THEN /\ Goto("run_rm")
            /\ UNCHANGED calls
       ELSE LET mutator == Value(args.mutator)
            IN  IF SourceExists(mutator)
                THEN /\ calls' = Append(calls,
                            Event("copyfile", <<mutator, <<"mutator.py">>>>, {}, Ran(0)))
                     /\ Goto("run_rm")
                ELSE /\ UNCHANGED calls
                     /\ End(MainRaise(args.debug,
                            OSError("FileNotFoundError", <<mutator>>,
                                    <<"[Errno 2] No such file or directory: ">>
                                    \o mutator)))
    /\ UNCHANGED <<args, CFLAGS, fs, stdout, todo, modinit, invocations>>

\* run: run_command(['rm', '-f', f'{bin}.profraw']).
RunRm ==
    /\ pc = "run_rm"
    /\ LET o == RmOutcome(fs.profraw[args.bin])
       IN  /\ RunCommandStep(RmCommand(args.bin), {}, o)
           /\ fs' = IF o.rc = 0
                    THEN [fs EXCEPT !.profraw[args.bin] = "absent"]
                    ELSE fs
           /\ RaiseOrGoto(CheckCall(RmCommand(args.bin), o), "run_mkdir")
    /\ UNCHANGED <<args, CFLAGS, todo, modinit, invocations>>

\* run: mkdir_p('corpus').
RunMkdir ==
    /\ pc = "run_mkdir"
    /\ calls' = Append(calls, Event("mkdir_p", << <<"corpus">> >>, {}, Ran(0)))
    /\ fs' = IF fs.corpus = "absent" THEN [fs EXCEPT !.corpus = "dir"] ELSE fs
    /\ Goto("run_exec")
    /\ UNCHANGED <<args, CFLAGS, stdout, todo, modinit, invocations>>

\* What the fuzz binary leaves behind: the raw profile where
\* LLVM_PROFILE_FILE points and, when it reports an error, a crash file.
AfterFuzzing(dir, bin, o) ==
    IF ~o.spawned THEN dir
    ELSE [dir EXCEPT
            !.profraw[bin] = "file",
            !.entries[<<"crash-", "a">>] =
                IF o.rc = 77 /\ @ = "absent" THEN "file" ELSE @]

\* run: run_command(command, env=env).
RunExec ==
    /\ pc = "run_exec"
    /\ \E o \in BinaryOutcomes :
        LET command == RunCommand(args.libfuzzer_argument, args.bin)
        IN  /\ RunCommandStep(command, RunEnv(args.bin), o)
            /\ fs' = AfterFuzzing(fs, args.bin, o)
            /\ RaiseOrReturn(CheckCall(command, o))
    /\ UNCHANGED <<args, CFLAGS, todo, modinit, invocations>>

\* print_coverage: the llvm-profdata merge.
CoverageMerge ==
    /\ pc = "do_print_coverage"
    /\ \E o \in MergeOutcomes(fs.profraw[args.bin]) :
        /\ RunCommandStep(MergeCommand(args.bin), {}, o)
        /\ fs' = IF o.spawned /\ o.rc = 0
                 THEN [fs EXCEPT !.profdata = @ \cup {args.bin}]
                 ELSE fs
        /\ RaiseOrGoto(CheckCall(MergeCommand(args.bin), o), "coverage_show")
    /\ UNCHANGED <<args, CFLAGS, todo, modinit, invocations>>

\* print_coverage: the llvm-cov show.
CoverageShow ==
    /\ pc = "coverage_show"
    /\ \E o \in ToolOutcomes :
        /\ RunCommandStep(ShowCommand(args.bin), {}, o)
        /\ RaiseOrReturn(CheckCall(ShowCommand(args.bin), o))
    /\ UNCHANGED <<args, CFLAGS, fs, todo, modinit, invocations>>

\* '\n'.join(filenames)
RECURSIVE JoinLines(_)
JoinLines(filenames) ==
    IF filenames = <<>> THEN <<>>
    ELSE IF Len(filenames) = 1 THEN Head(filenames)
    ELSE Head(filenames) \o <<"\n">> \o JoinLines(Tail(filenames))

\* The lists glob.glob('corpus/*') can return.
GlobCorpus(dir) ==
    IF dir.corpus = "dir"
    THEN {<<>>, << <<"corpus/u">> >>, << <<"corpus/u">>, <<"corpus/v">> >>}
    ELSE {<<>>}

\* do_print_corpus: one run of the print binary on the joined list.
PrintCorpus ==
    /\ pc = "do_print_corpus"
    /\ \E filenames \in (IF args.units # <<>> THEN {args.units} ELSE GlobCorpus(fs)),
          o \in ToolOutcomes :
        LET command == <<args.bin_print>>
        IN  /\ calls' = Append(calls, RunEvent(command, JoinLines(filenames), o))
            /\ RaiseOrReturn(CheckCall(command, o))
    /\ UNCHANGED <<args, CFLAGS, fs, stdout, todo, modinit, invocations>>

\* do_print_crashes: the choice of filenames.
CrashesList ==
    /\ pc = "do_print_crashes"
    /\ \E filenames \in (IF args.units # <<>> THEN {args.units}
                         ELSE Glob(fs, "crash-")) :
        todo' = filenames
    /\ Goto("crashes_loop")
    /\ UNCHANGED <<args, CFLAGS, fs, calls, stdout, modinit, invocations>>

\* What one pass of do_print_crashes' loop body does for filename when the
\* print binary ends as o: the exception leaving the body, the event and
\* the lines printed.
CrashesBody(bin_print, filename, o) ==
    IF ~Encodable(filename)
    THEN [raised |-> {OSError("UnicodeEncodeError", <<bin_print>>,
                              <<"'utf-8' codec can't encode character: ">>
                              \o <<"surrogates not allowed">>)},
          events |-> <<>>, lines |-> <<>>]
    ELSE IF ~o.spawned
    THEN [raised |-> CheckCall(<<bin_print>>, o), events |-> <<>>,
          lines |-> <<>>]
    ELSE [raised |-> {},
          events |-> <<RunEvent(<<bin_print>>, filename, o)>>,
          lines |-> << <<>> >> \o
                    (IF o.rc # 0
                     THEN <<Str(CalledProcessError(<<bin_print>>, o.rc))>>
                     ELSE <<>>)]

\* do_print_crashes: one pass of the loop.
CrashesUnit ==
    /\ pc = "crashes_loop"
    /\ todo # <<>>
    /\ \E o \in ToolOutcomes :
        LET r == CrashesBody(args.bin_print, Head(todo), o)
        IN  /\ calls' = calls \o r.events
            /\ stdout' = stdout \o r.lines
            /\ RaiseOrGoto(r.raised, "crashes_loop")
    /\ todo' = Tail(todo)
    /\ UNCHANGED <<args, CFLAGS, fs, modinit, invocations>>

\* do_print_crashes: the loop is over.
CrashesDone ==
    /\ pc = "crashes_loop"
    /\ todo = <<>>
    /\ End(MainReturn)
    /\ UNCHANGED <<args, CFLAGS, fs, calls, stdout, todo, modinit, invocations>>

\* os.rmdir in the place of rmtree: a corpus with units in it stays.
RmtreeKept(dir) == dir

\* shutil.rmtree('corpus', ignore_errors=True): a tree goes, a plain file
\* named corpus makes rmtree fail, which is ignored.
Rmtree(dir) == IF dir.corpus = "dir" THEN [dir EXCEPT !.corpus = "absent"] ELSE dir

\* do_clean: the rmtree and the first glob.
CleanRmtree ==
    /\ pc = "do_clean"
    /\ fs' = Rmtree(fs)
    /\ calls' = Append(calls, Event("rmtree", << <<"corpus">> >>, {}, Ran(0)))
    /\ \E filenames \in Glob(fs, Patterns[1]) : todo' = filenames
    /\ Goto("clean_1")
    /\ UNCHANGED <<args, CFLAGS, stdout, modinit, invocations>>

\* What os.remove(filename) raises.
Remove(dir, filename) ==
    IF dir.entries[filename] = "dir"
    THEN {OSError("IsADirectoryError", <<filename>>,
                  <<"[Errno 21] Is a directory: ">> \o filename)}
    ELSE IF dir.entries[filename] = "absent"
    THEN {OSError("FileNotFoundError", <<filename>>,
                  <<"[Errno 2] No such file or directory: ">> \o filename)}
    ELSE {}

\* do_clean: one pass of the k-th for loop.
CleanRemove(k) ==
    /\ pc = "clean_" \o ToString(k)
    /\ todo # <<>>
    /\ LET filename == Head(todo)
           raised == Remove(fs, filename)
       IN  /\ fs' = IF raised = {}
                    THEN [fs EXCEPT !.entries[filename] = "absent"]
                    ELSE fs
           /\ calls' = Append(calls, Event("remove", <<filename>>, {},
                                           Ran(IF raised = {} THEN 0 ELSE 1)))
           /\ RaiseOrGoto(raised, pc)
    /\ todo' = Tail(todo)
    /\ UNCHANGED <<args, CFLAGS, stdout, modinit, invocations>>

\* do_clean: the k-th loop is over; the next glob, or the return.
CleanNext(k) ==
    /\ pc = "clean_" \o ToString(k)
    /\ todo = <<>>
    /\ IF k < Len(Patterns)
       THEN /\ \E filenames \in Glob(fs, Patterns[k + 1]) : todo' = filenames
            /\ Goto("clean_" \o ToString(k + 1))
       ELSE /\ todo' = todo
            /\ End(MainReturn)
    /\ UNCHANGED <<args, CFLAGS, fs, calls, stdout, modinit, invocations>>

\* The ways the compiler can end.
CompilerOutcomes == {NotFound, Ran(0), Ran(1)}

\* do_build: the choice of modinit_func and build().
DoBuild ==
    /\ pc = "do_build"
    /\ modinit' = ModinitFunc(args)
    /\ \E o \in CompilerOutcomes :
        LET command == BuildCommand(args.csources, modinit', args.output, CFLAGS)
        IN  /\ RunCommandStep(command, {}, o)
            /\ IF CheckCall(command, o) = {} /\ args.fuzzer_only
               THEN End(MainReturn)
               ELSE RaiseOrGoto(CheckCall(command, o), "build_print")
    /\ UNCHANGED <<args, CFLAGS, fs, todo, invocations>>

\* do_build: build_print().
BuildPrint ==
    /\ pc = "build_print"
    /\ \E o \in CompilerOutcomes :
        LET command == BuildPrintCommand(args.csources, modinit, args.output, CFLAGS)
        IN  /\ RunCommandStep(command, {}, o)
            /\ RaiseOrReturn(CheckCall(command, o))
    /\ UNCHANGED <<args, CFLAGS, fs, todo, modinit, invocations>>

\* clean is started again in the directory the last invocation left.
CleanAgain ==
    /\ pc = "exit"
    /\ invocations < MaxInvocations
    /\ invocations' = invocations + 1
    /\ \E a \in CleanArgs : args' = a
    /\ CFLAGS' = CFLAGS
    /\ fs' = fs
    /\ pc' = "main"
    /\ calls' = <<>>
    /\ stdout' = <<>>
    /\ todo' = <<>>
    /\ modinit' = <<>>
    /\ exit_status' = 0
    /\ stderr' = <<>>
    /\ uncaught' = {}

----------------------------------------------------------------------------
(* One invocation of any workflow command. *)

Init ==
    /\ invocations = 1
    /\ \E a \in WorkflowArgs, dir \in Directories : Started(a, {}, dir)

Next ==
    \/ Main
    \/ Generate
    \/ RunRm
    \/ RunMkdir
    \/ RunExec
    \/ CoverageMerge
    \/ CoverageShow
    \/ PrintCorpus
    \/ CrashesList
    \/ CrashesUnit
    \/ CrashesDone
    \/ CleanRmtree
    \/ \E k \in DOMAIN Patterns : CleanRemove(k)
    \/ \E k \in DOMAIN Patterns : CleanNext(k)
    \/ DoBuild
    \/ BuildPrint

Spec == Init /\ [][Next]_vars

(* clean, run again and again in one directory. *)

InitClean ==
    /\ invocations = 1
    /\ \E a \in CleanArgs, dir \in CleanDirectories : Started(a, {}, dir)

NextClean ==
    \/ Main
    \/ CleanRmtree
    \/ \E k \in DOMAIN Patterns : CleanRemove(k)
    \/ \E k \in DOMAIN Patterns : CleanNext(k)
    \/ CleanAgain

SpecClean == InitClean /\ [][NextClean]_vars

(* One build, for every input the bounds allow. *)

InitBuild ==
    /\ invocations = 1
    /\ \E a \in BuildArgs, cflags \in CflagsValues :
        Started(a, cflags,
                [profraw |-> [b \in Bins |-> "absent"], profdata |-> {},
                 corpus |-> "absent", entries |-> [n \in Names |-> "absent"]])

NextBuild ==
    \/ Main
    \/ DoBuild
    \/ BuildPrint

SpecBuild == InitBuild /\ [][NextBuild]_vars

----------------------------------------------------------------------------
(* Properties of the workflows. *)

Exited == pc = "exit"

\* The invocation of the fuzz binary among the events of run.
IsFuzzExec(e) ==
    e.kind = "exec" /\ e.argv[1] = args.bin /\ e.env # {}

IsRm(e) ==
    /\ e.kind = "exec"
    /\ e.argv = << <<"rm">>, <<"-f">>, args.bin \o <<".profraw">> >>

IsMkdirCorpus(e) == e.kind = "mkdir_p" /\ e.argv = << <<"corpus">> >>

Succeeded(e) == e.spawned /\ e.rc = 0

\* C1: in every run, the fuzz binary is invoked only after rm -f of
\* <bin>.profraw has completed successfully and, after that, corpus has been
\* ensured: at the invocation the stale profile is gone and corpus exists.
C1_RemoveBeforeFuzz ==
    args.subcommand = "run" =>
        /\ \A i \in DOMAIN calls :
              IsFuzzExec(calls[i]) =>
                  \E j, k \in DOMAIN calls :
                      /\ j < k /\ k < i
                      /\ IsRm(calls[j]) /\ Succeeded(calls[j])
                      /\ IsMkdirCorpus(calls[k])
        /\ pc = "run_exec" =>
              /\ fs.profraw[args.bin] = "absent"
              /\ fs.corpus # "absent"
        /\ \A i \in DOMAIN calls :
              IsRm(calls[i]) /\ ~Succeeded(calls[i]) =>
                  /\ Exited
                  /\ \A j \in DOMAIN calls : ~IsFuzzExec(calls[j])

\* A run of the non-default binary got as far as the fuzz binary.
C1_Witness ==
    /\ args.subcommand = "run"
    /\ args.bin = <<"fuzz">>
    /\ Exited
    /\ \E i \in DOMAIN calls : IsFuzzExec(calls[i]) /\ calls[i].spawned

\* C2: print_crashes attempts every unit of the list, in order, whatever
\* happened to the earlier ones, and the command itself does not fail.
C2_EveryUnitAttempted ==
    (Exited /\ args.subcommand = "print_crashes" /\ args.units # <<>>) =>
        /\ [i \in DOMAIN calls |-> calls[i].input] = args.units
        /\ exit_status = 0

\* C3 as claimed: the exit status of run is the exit code of the fuzz binary.
C3_ExitCodeOfBinary ==
    (Exited /\ args.subcommand = "run" /\ calls # <<>>
       /\ IsFuzzExec(Last(calls)) /\ Last(calls).spawned) =>
        exit_status = Last(calls).rc

\* C3, amended: run exits 0 exactly when the fuzz binary exits 0, and with
\* status 1 for every other exit code of the binary, with and without --debug.
C3_ExitStatusOfRun ==
    (Exited /\ args.subcommand = "run" /\ calls # <<>>
       /\ IsFuzzExec(Last(calls)) /\ Last(calls).spawned) =>
        exit_status = IF Last(calls).rc = 0 THEN 0 ELSE 1

\* The fuzz binary died of a signal under --debug.
C3_Witness ==
    /\ Exited
    /\ args.subcommand = "run"
    /\ args.debug
    /\ calls # <<>>
    /\ IsFuzzExec(Last(calls))
    /\ Last(calls).spawned
    /\ Last(calls).rc < 0

\* An external effect that failed.
Failure(e) == e.kind \in {"exec", "remove"} /\ ~Succeeded(e)

IsMerge(e) ==
    /\ e.kind = "exec"
    /\ e.argv = << <<"llvm-profdata">>, <<"merge">>, <<"-sparse">>,
                   args.bin \o <<".profraw">>, <<"-o">>,
                   args.bin \o <<".profdata">> >>

IsShow(e) ==
    /\ e.kind = "exec"
    /\ e.argv[1] = <<"llvm-cov">>
    /\ e.argv[4] = <<"-instr-profile=">> \o args.bin \o <<".profdata">>

\* C6: print_coverage merges first and renders second, renders only after a
\* successful merge, and fails without rendering when the merge fails or
\* <bin>.profraw is not there.
C6_MergeThenShow ==
    args.subcommand = "print_coverage" =>
        /\ \A i \in DOMAIN calls :
              /\ IsMerge(calls[i]) <=> i = 1
              /\ IsShow(calls[i]) <=> i = 2
        /\ Len(calls) >= 2 => Succeeded(calls[1])
        /\ (calls # <<>> /\ ~Succeeded(calls[1])) =>
              Exited /\ exit_status # 0 /\ Len(calls) = 1
        /\ (Exited /\ fs.profraw[args.bin] # "file") =>
              exit_status # 0 /\ Len(calls) = 1

\* The coverage listing was rendered.
C6_Witness ==
    /\ args.subcommand = "print_coverage"
    /\ Exited
    /\ Len(calls) = 2
    /\ Succeeded(calls[2])

----------------------------------------------------------------------------
(* Properties of clean. *)

Matching == {n \in Names : \E k \in DOMAIN Patterns : n[1] = Patterns[k]}

NoMatchingDirectory == \A n \in Matching : fs.entries[n] # "dir"

\* C4 as claimed: from any working directory, after a clean the corpus tree
\* and every file matching crash-*, oom-*, slow-unit-* are gone, and a clean
\* that follows removes nothing and succeeds.
C4_CleanFromAnyDirectory ==
    Exited =>
        /\ fs.corpus # "dir"
        /\ \A n \in Matching : fs.entries[n] # "file"
        /\ invocations >= 2 =>
              /\ exit_status = 0
              /\ \A i \in DOMAIN calls : calls[i].kind # "remove"

\* C4, amended: when no directory matches the three patterns, a clean leaves
\* no corpus tree and no matching entry and exits 0, and every step of a
\* clean that follows leaves the working directory as it is and that clean
\* exits 0 too; no clean fails on a missing entry.  When a directory does
\* match, clean fails on it with a non-zero status.
C4_CleanIdempotent ==
    [][ /\ (NoMatchingDirectory /\ pc' = "exit") =>
              /\ exit_status' = 0
              /\ fs'.corpus # "dir"
              /\ \A n \in Matching : fs'.entries[n] = "absent"
        /\ (NoMatchingDirectory /\ invocations >= 2) => fs' = fs
        /\ \A i \in DOMAIN calls' :
              (calls'[i].kind = "remove" /\ calls'[i].rc # 0) =>
                  fs.entries[calls'[i].argv[1]] = "dir"
        /\ (~NoMatchingDirectory /\ pc' = "exit") => exit_status' # 0
      ]_vars

\* A second clean ended after the first had removed the tree and the files.
C4_Witness ==
    /\ Exited
    /\ invocations = 2
    /\ NoMatchingDirectory
    /\ exit_status = 0
    /\ Len(calls) = 1

----------------------------------------------------------------------------
(* Properties of the Command Synthesizer. *)

IsBuild == args.subcommand = "build"

\* The commands of the fuzz build and of the print build, once issued.
FuzzBuilt == IsBuild /\ Len(calls) >= 1

PrintBuilt == IsBuild /\ Len(calls) >= 2

FuzzCmd == calls[1].argv

PrintCmd == calls[2].argv

\* The arguments of cmd from position `from` up to the first include path.
FlagsOf(cmd, from) ==
    LET inc == CHOOSE n \in DOMAIN cmd :
                   /\ cmd[n] = <<"-I", "include">>
                   /\ \A m \in 1 .. (n - 1) : cmd[m] # <<"-I", "include">>
    IN  SubSeq(cmd, from, inc - 1)

\* An override is supplied when CFLAGS is set to a non-empty string.
Supplied == CFLAGS # {} /\ Value(CFLAGS) # <<>>

\* The positions of c where a run of non-blank characters starts, and the
\* run that starts at a.
WordStarts(c) == {i \in DOMAIN c : c[i] # " " /\ (i = 1 \/ c[i - 1] = " ")}

WordAt(c, a) ==
    SubSeq(c, a, CHOOSE b \in a .. Len(c) :
                    /\ \A x \in a .. b : c[x] # " "
                    /\ b = Len(c) \/ c[b + 1] = " ")

\* flags are the blank-separated words of c, in order.
IsSplitOf(flags, c) ==
    /\ Len(flags) = Cardinality(WordStarts(c))
    /\ \A a \in WordStarts(c) :
          flags[Cardinality({x \in WordStarts(c) : x < a}) + 1] = WordAt(c, a)

Elements(seq) == {seq[i] : i \in DOMAIN seq}

\* C7: the fuzz build carries, between the macro definition and the include
\* paths, the whole default flag list and nothing else when no override is
\* supplied, and the words of the override and none of the defaults when
\* one is.
C7_FuzzFlagsExclusive ==
    FuzzBuilt =>
        /\ FuzzCmd[1] = <<"clang">>
        /\ FuzzCmd[2] = <<"-fsanitize=fuzzer">>
        /\ IF Supplied
           THEN /\ IsSplitOf(FlagsOf(FuzzCmd, 4), Value(CFLAGS))
                /\ Elements(FuzzCmd) \cap Elements(DefaultFlags) = {}
           ELSE /\ FlagsOf(FuzzCmd, 4) = DefaultFlags
                /\ Len(DefaultFlags) = 11
                /\ <<"-fno-sanitize-recover=all">> \in Elements(FuzzCmd)

\* A fuzz build with an override of two flags.
C7_Witness ==
    /\ FuzzBuilt
    /\ Supplied
    /\ Len(FlagsOf(FuzzCmd, 4)) = 2

\* C8: the print build writes to the fuzz build's output path with _print
\* appended, whatever the output option is.
C8_PrintOutputSuffix ==
    PrintBuilt =>
        /\ FuzzCmd[Len(FuzzCmd) - 1] = <<"-o">>
        /\ PrintCmd[Len(PrintCmd) - 1] = <<"-o">>
        /\ Last(FuzzCmd) = args.output
        /\ Last(PrintCmd) = Last(FuzzCmd) \o <<"_print">>

\* Both builds ran with an output option other than the default.
C8_Witness ==
    /\ PrintBuilt
    /\ Exited
    /\ args.output # <<"./pyfuzzer">>
    /\ exit_status = 0

\* s is p without its directory part and without its extension: the text
\* after the last separator, up to its last dot unless only dots precede it.
IsStem(s, p) ==
    \E i \in 0 .. Len(p), j \in 0 .. Len(p) :
        /\ i <= j
        /\ i = 0 \/ p[i] = "/"
        /\ \A k \in (i + 1) .. Len(p) : p[k] # "/"
        /\ s = SubSeq(p, i + 1, j)
        /\ \/ /\ j < Len(p)
              /\ p[j + 1] = "."
              /\ \A k \in (j + 2) .. Len(p) : p[k] # "."
              /\ \E k \in (i + 1) .. j : p[k] # "."
           \/ /\ j = Len(p)
              /\ \A m \in (i + 1) .. Len(p) :
                    p[m] = "." => \A k \in (i + 1) .. m : p[k] = "."

\* C9: without an explicit symbol both builds define MODINIT_FUNC as PyInit_
\* followed by the first source's base name without its extension; an
\* explicit symbol is used as given.
C9_ModinitFunc ==
    /\ FuzzBuilt =>
          \E sym \in {SubSeq(FuzzCmd[3], 2, Len(FuzzCmd[3]))} :
              /\ FuzzCmd[3] = <<"-DMODINIT_FUNC=">> \o sym
              /\ IF args.modinit_func = {}
                 THEN /\ sym[1] = "PyInit_"
                      /\ IsStem(Tail(sym), args.csources[1])
                 ELSE sym = Value(args.modinit_func)
    /\ PrintBuilt => PrintCmd[2] = FuzzCmd[3]

\* Both builds ran on a source in a directory, with an extension, and no
\* explicit symbol.
C9_Witness ==
    /\ PrintBuilt
    /\ args.modinit_func = {}
    /\ args.csources[1] = <<"/", "a", ".">>
    /\ Len(args.csources) = 2

\* C10: the print build has no fuzzing-engine flag and no default flag:
\* between the macro definition and the include paths it carries the words
\* of the override when one is supplied and nothing otherwise, and it
\* compiles pyfuzzer_print.c in the place of pyfuzzer.c.
C10_PrintFlags ==
    PrintBuilt =>
        /\ PrintCmd[1] = <<"clang">>
        /\ PrintCmd[2][1] = "-DMODINIT_FUNC="
        /\ <<"-fsanitize=fuzzer">> \notin Elements(PrintCmd)
        /\ Elements(PrintCmd) \cap Elements(DefaultFlags) = {}
        /\ IF Supplied
           THEN IsSplitOf(FlagsOf(PrintCmd, 3), Value(CFLAGS))
           ELSE FlagsOf(PrintCmd, 3) = <<>>
        /\ <<"SCRIPT_DIR", "/", "pyfuzzer_print.c">> \in Elements(PrintCmd)
        /\ <<"SCRIPT_DIR", "/", "pyfuzzer.c">> \notin Elements(PrintCmd)
        /\ <<"SCRIPT_DIR", "/", "pyfuzzer.c">> \in Elements(FuzzCmd)

\* A print build with no override, and so with no flag at all.
C10_Witness ==
    /\ PrintBuilt
    /\ CFLAGS = {}
    /\ FlagsOf(PrintCmd, 3) = <<>>
    /\ Len(FlagsOf(FuzzCmd, 4)) = 11

====
